---- MODULE Spec2Model ----
(***************************************************************************)
(* Model of batch_face/fast_alignment/predictor.py: the face-crop          *)
(* preprocessor (prepare_feed), the landmark reprojector (reproject), the  *)
(* batched inference call (batch_predict2), the result splitter            *)
(* (split_feeds) and the shape-polymorphic entry point                     *)
(* LandmarkPredictor.__call__.                                             *)
(*                                                                         *)
(* Box coordinates are real-valued in the program (detector output); the   *)
(* model keeps them as integers in units of 1/Q pixel.  Landmarks in       *)
(* normalised crop space are integers in units of 1/D, and reprojected     *)
(* landmarks are integers in units of 1/D pixel.                           *)
(***************************************************************************)
EXTENDS Integers, Sequences, FiniteSets

\* ------------------------------------------------------------------ bounds
\* Box coordinates are multiples of 1/Q pixel.
Q == 2
\* Normalised landmark coordinates are multiples of 1/D.
D == 2
\* Box coordinates range over -CoordBelow .. CoordAbove (units of 1/Q pixel).
CoordBelow == 6
CoordAbove == 5
\* The two image shapes are ImgW x ImgH and ImgH x ImgW pixels.
ImgW == 3
ImgH == 2
\* Most images in one multi-image call, most boxes per image.
MaxImages == 2
MaxFaces == 2

\* ----------------------------------------------------------------- helpers
Max(a, b) == IF a >= b THEN a ELSE b
Min(a, b) == IF a <= b THEN a ELSE b

\* Python int(x) and torch .int(): truncation toward zero of a / b, b > 0.
Trunc(a, b) == IF a >= 0 THEN a \div b ELSE -((-a) \div b)

\* Length of the numpy basic slice a[lo:hi] over an axis of n elements:
\* negative indices count from the end, then both are clamped to 0..n.
SliceIndex(k, n) == IF k < 0 THEN Max(0, k + n) ELSE Min(k, n)
SliceLen(lo, hi, n) == Max(0, SliceIndex(hi, n) - SliceIndex(lo, n))

\* ------------------------------------------------------------ prepare_feed
\* The expanded square region, lines 45-53 (units of 1/Q pixel; size in pixels).
Square(face) ==
  LET w == face[3] - face[1] + Q
      h == face[4] - face[2] + Q
      size == Trunc(6 * Min(w, h), 5 * Q)
      cx == face[1] + Q * (w \div (2 * Q))
      cy == face[2] + Q * (h \div (2 * Q))
      x1 == cx - Q * (size \div 2)
      y1 == cy - Q * (size \div 2)
  IN  [size |-> size, x1 |-> x1, y1 |-> y1,
       x2 |-> x1 + Q * size, y2 |-> y1 + Q * size]

\* Clipping to the image and the recorded padding amounts, lines 55-63
\* (units of 1/Q pixel).
Clip(img, face) ==
  LET s == Square(face)
  IN  [dx  |-> Max(0, -s.x1),
       dy  |-> Max(0, -s.y1),
       x1  |-> Max(0, s.x1),
       y1  |-> Max(0, s.y1),
       edx |-> Max(0, s.x2 - Q * img.width),
       edy |-> Max(0, s.y2 - Q * img.height),
       x2  |-> Min(Q * img.width, s.x2),
       y2  |-> Min(Q * img.height, s.y2)]

\* new_bbox = torch.Tensor([x1, y1, x2, y2]).int(), line 64 (pixels).
NewBbox(img, face) ==
  LET c == Clip(img, face)
  IN  <<Trunc(c.x1, Q), Trunc(c.y1, Q), Trunc(c.x2, Q), Trunc(c.y2, Q)>>

\* Shape <<rows, cols>> of cropped = img[y1:y2, x1:x2], line 66.
CroppedShape(img, face) ==
  LET b == NewBbox(img, face)
  IN  <<SliceLen(b[2], b[4], img.height), SliceLen(b[1], b[3], img.width)>>

\* The condition of line 67.
NeedsBorder(img, face) ==
  LET c == Clip(img, face)
  IN  c.dx > 0 \/ c.dy > 0 \/ c.edx > 0 \/ c.edy > 0

\* The border widths <<top, bottom, left, right>> handed to copyMakeBorder,
\* line 69; <<0, 0, 0, 0>> when line 67 skips it.
Border(img, face) ==
  LET c == Clip(img, face)
  IN  IF NeedsBorder(img, face)
      THEN <<Trunc(c.dy, Q), Trunc(c.edy, Q), Trunc(c.dx, Q), Trunc(c.edx, Q)>>
      ELSE <<0, 0, 0, 0>>

\* Shape <<rows, cols>> of the array handed to cv2.resize, line 71.
ResizeInput(img, face) ==
  LET s == CroppedShape(img, face)
      p == Border(img, face)
  IN  <<s[1] + p[1] + p[2], s[2] + p[3] + p[4]>>

\* The tensor of a feed is determined by the image, the slice taken from it
\* and the border added; the feed carries it with new_bbox, line 81.
Feed(img, face) ==
  LET b == NewBbox(img, face)
  IN  [data |-> [img  |-> img,
                 rows |-> <<SliceIndex(b[2], img.height), SliceIndex(b[4], img.height)>>,
                 cols |-> <<SliceIndex(b[1], img.width), SliceIndex(b[3], img.width)>>,
                 pad  |-> Border(img, face)],
       bbox |-> b]

\* Whether the crop of line 66 is empty.
EmptyCrop(img, face) ==
  CroppedShape(img, face)[1] = 0 \/ CroppedShape(img, face)[2] = 0

\* Whether copyMakeBorder is handed an empty crop: the library may reject it
\* or return the border alone.
BorderOnEmpty(img, face) == NeedsBorder(img, face) /\ EmptyCrop(img, face)

\* Whether prepare_feed raises: cv2.resize rejects an empty source (line 71);
\* the test of line 73 reads the resized array, whose sides are out_size, and
\* never fires.  borderOk is the library's choice when copyMakeBorder is
\* handed an empty crop.
PrepareRaises(img, face, borderOk) ==
  \/ BorderOnEmpty(img, face) /\ ~borderOk
  \/ ResizeInput(img, face)[1] = 0
  \/ ResizeInput(img, face)[2] = 0

\* --------------------------------------------------------------- reproject
\* reproject(bbox, landmark), lines 21-30: landmark is a sequence of <<u, v>>
\* in units of 1/D; the result is in units of 1/D pixel.
ReprojectSwapped(bbox, landmark) ==
  LET w == bbox[3] - bbox[1]
      h == bbox[4] - bbox[2]
  IN  [k \in 1..Len(landmark) |->
         <<landmark[k][1] * h + D * bbox[1], landmark[k][2] * w + D * bbox[2]>>]

Reproject(bbox, landmark) ==
  LET w == bbox[3] - bbox[1]
      h == bbox[4] - bbox[2]
  IN  [k \in 1..Len(landmark) |->
         <<landmark[k][1] * w + D * bbox[1], landmark[k][2] * h + D * bbox[2]>>]

\* ------------------------------------------------------------------- model
\* The network is an opaque deterministic function of one input tensor,
\* applied to each element of a batch independently.  The stand-in derives
\* two normalised landmarks from the tensor's contents.
DataKey(data) ==
  data.rows[1] + 2 * data.rows[2] + 3 * data.cols[1] + 5 * data.cols[2]
  + 7 * data.img.width + data.pad[1] + 2 * data.pad[2] + 3 * data.pad[3]
  + 4 * data.pad[4]

Model(data) ==
  LET a == DataKey(data) % (D + 1)
      b == (DataKey(data) \div (D + 1)) % (D + 1)
  IN  << <<a, b>>, <<D - a, D - b>> >>

\* ---------------------------------------------------------- batch_predict2
\* The batch size the DataLoader is built with, line 117: always len(feeds),
\* whatever batch_size was passed.
\* batch_size is 0 for None.
LoaderBatchSizeHonoured(n, batch_size) == IF batch_size = 0 THEN n ELSE batch_size

LoaderBatchSize(n, batch_size) == n

\* Number of batches a DataLoader with batch size bs > 0 yields for n items.
NumBatches(n, bs) == (n + bs - 1) \div bs

\* One landmark set per feed: model output reshaped to pairs and reprojected
\* with the feed's bbox, lines 120-124.
Predict(feed) == Reproject(feed.bbox, Model(feed.data))

\* The results of the loop of lines 119-124 over batches of bs feeds.
RECURSIVE BatchResults(_, _)
BatchResults(feedList, bs) ==
  IF feedList = <<>> THEN <<>>
  ELSE LET n == Min(bs, Len(feedList))
       IN  [k \in 1..n |-> Predict(feedList[k])]
           \o BatchResults(SubSeq(feedList, n + 1, Len(feedList)), bs)

\* ------------------------------------------------------------- split_feeds
\* ends, lines 130-135: the prefix sums of the per-image box counts.
RECURSIVE Ends(_, _)
Ends(all_faces, k) ==
  IF k = 0 THEN 0 ELSE Ends(all_faces, k - 1) + Len(all_faces[k])

\* The Python slice s[lo:hi] for 0 <= lo <= hi.
PySlice(s, lo, hi) == SubSeq(s, Min(lo, Len(s)) + 1, Min(hi, Len(s)))

\* split_feeds(all_feeds, all_faces), line 136.
SplitFeeds(all_feeds, all_faces) ==
  [k \in 1..Len(all_faces) |->
     PySlice(all_feeds, Ends(all_faces, k - 1), Ends(all_faces, k))]

\* ------------------------------------------------------------------- state
VARIABLES
  pc,          \* "idle", "prepare", "done" (returned) or "raised"
  shape,       \* call shape: "single", "multi" or "batch"
  images,      \* all_images as a sequence (one image unless shape = "batch")
  boxes,       \* all_boxes as a sequence of per-image box sequences
  i, j,        \* position of the preprocessing loops: image i, box j
  feeds,       \* the feeds prepared so far, in order
  modelCalls,  \* forward passes of the network made by the current call
  result,      \* the value returned (<<>> until the call returns)
  err          \* the exception raised ("none" until the call raises)

vars == <<pc, shape, images, boxes, i, j, feeds, modelCalls, result, err>>

\* ------------------------------------------------------------------ inputs
Image(h, w) == [height |-> h, width |-> w]
Images == {Image(ImgH, ImgW), Image(ImgW, ImgH)}

Coords == (0 - CoordBelow)..CoordAbove
GeomBoxes == {<<x1, y1, x2, y2>> : x1 \in Coords, y1 \in Coords,
                                    x2 \in Coords, y2 \in Coords}

\* Boxes of the multi-box calls: one inside both images, one whose square
\* reaches the right edge, one whose crop is empty.
GoodBox == <<0, 0, Q, Q>>
EdgeBox == <<Q, 0, 2 * Q, Q>>
BadBox == <<Q, Q, 0, 0>>
OrchBoxes == {GoodBox, EdgeBox, BadBox}

SeqsUpTo(S, n) == UNION {[1..k -> S] : k \in 0..n}
\* The box lists of one image: up to MaxFaces distinct boxes, in any order.
BoxLists ==
  {bl \in SeqsUpTo(OrchBoxes, MaxFaces) :
     \A a, b \in 1..Len(bl) : a # b => bl[a] # bl[b]}

\* ----------------------------------------------------------------- actions
\* The assertion of line 170.
LengthsMatchUnchecked(all_boxes, all_images) == TRUE

LengthsMatch(all_boxes, all_images) == Len(all_boxes) = Len(all_images)

\* Number of pairs zip(all_boxes, all_images) yields, line 182.
ZipLen == Min(Len(boxes), Len(images))

\* __call__, lines 158-172, up to the first prepare_feed.  sh is the outcome
\* of is_image / is_box on the arguments.
Call(sh, imgs, bxs) ==
  /\ shape' = sh
  /\ images' = imgs
  /\ boxes' = bxs
  /\ i' = 1
  /\ j' = 1
  /\ feeds' = <<>>
  /\ modelCalls' = 0
  /\ result' = <<>>
  /\ IF sh = "batch" /\ ~LengthsMatch(bxs, imgs)
     THEN pc' = "raised" /\ err' = "AssertionError"
     ELSE pc' = "prepare" /\ err' = "none"

\* A call with one image and one box.
CallSingle ==
  /\ pc = "idle"
  /\ \E img \in Images, box \in GeomBoxes : Call("single", <<img>>, <<<<box>>>>)

\* A call with one image and one box, over the boxes of the multi-box calls.
CallOne ==
  /\ pc = "idle"
  /\ \E img \in Images, box \in OrchBoxes : Call("single", <<img>>, <<<<box>>>>)

\* A call with one image and a list of boxes.
CallMulti ==
  /\ pc = "idle"
  /\ \E img \in Images, bl \in BoxLists : Call("multi", <<img>>, <<bl>>)

\* A call with a list of images and a list of box lists.
CallBatch ==
  /\ pc = "idle"
  /\ \E imgs \in SeqsUpTo(Images, MaxImages) \ {<<>>},
        bxs \in SeqsUpTo(BoxLists, MaxImages) : Call("batch", imgs, bxs)

\* One evaluation of self.prepare_feed, lines 165, 167 and 183.
PrepareFeed ==
  /\ pc = "prepare"
  /\ i <= ZipLen
  /\ j <= Len(boxes[i])
  /\ \E borderOk \in (IF BorderOnEmpty(images[i], boxes[i][j])
                      THEN BOOLEAN ELSE {TRUE}) :
       IF PrepareRaises(images[i], boxes[i][j], borderOk)
       THEN /\ pc' = "raised"
            /\ err' = "cv2.error"
            /\ UNCHANGED <<feeds, j>>
       ELSE /\ feeds' = Append(feeds, Feed(images[i], boxes[i][j]))
            /\ j' = j + 1
            /\ UNCHANGED <<pc, err>>
  /\ UNCHANGED <<shape, images, boxes, i, modelCalls, result>>

\* The boxes of image i are exhausted: the next pair of zip, line 182.
NextImage ==
  /\ pc = "prepare"
  /\ i <= ZipLen
  /\ j > Len(boxes[i])
  /\ i' = i + 1
  /\ j' = 1
  /\ UNCHANGED <<pc, shape, images, boxes, feeds, modelCalls, result, err>>

\* Whether the loops of lines 167 and 182-184 have ended.
LoopDoneEarly == i > 1

LoopDone == i > ZipLen

\* _inner_predict and batch_predict2, lines 112-125 and 174-178, then
\* split_feeds for a multi-image call, line 186, and the return.
Infer ==
  /\ pc = "prepare"
  /\ LoopDone
  /\ LET bs == LoaderBatchSize(Len(feeds), 0)
         flat == BatchResults(feeds, bs)
     IN  IF bs <= 0
         THEN /\ pc' = "raised"
              /\ err' = "ValueError"
              /\ UNCHANGED <<modelCalls, result>>
         ELSE /\ pc' = "done"
              /\ modelCalls' = modelCalls + NumBatches(Len(feeds), bs)
              /\ result' = CASE shape = "single" -> flat[1]
                             [] shape = "multi" -> flat
                             [] shape = "batch" -> SplitFeeds(flat, boxes)
              /\ UNCHANGED err
  /\ UNCHANGED <<shape, images, boxes, i, j, feeds>>

\* The caller takes the result or the exception; the predictor is idle again.
Return ==
  /\ pc \in {"done", "raised"}
  /\ pc' = "idle"
  /\ shape' = "single"
  /\ images' = <<>>
  /\ boxes' = <<>>
  /\ i' = 1
  /\ j' = 1
  /\ feeds' = <<>>
  /\ modelCalls' = 0
  /\ result' = <<>>
  /\ err' = "none"

Init ==
  /\ pc = "idle"
  /\ shape = "single"
  /\ images = <<>>
  /\ boxes = <<>>
  /\ i = 1
  /\ j = 1
  /\ feeds = <<>>
  /\ modelCalls = 0
  /\ result = <<>>
  /\ err = "none"

Steps == PrepareFeed \/ NextImage \/ Infer \/ Return

\* Calls of every shape over the boxes of the multi-box calls.
Next == CallOne \/ CallMulti \/ CallBatch \/ Steps
Spec == Init /\ [][Next]_vars

\* Single-box calls over every box of the coordinate range.
NextGeom == CallSingle \/ Steps
SpecGeom == Init /\ [][NextGeom]_vars

\* ------------------------------------------------------------------ claims
\* The box of a single-box call, its image, and the feed built from them.
TheImage == images[1]
TheBox == boxes[1][1]

\* A box with x2 > x1 and y2 > y1 (coordinates in units of 1/Q pixel).
WellFormed(face) == face[3] > face[1] /\ face[4] > face[2]

\* A box with x2 <= x1 or y2 <= y1.
Degenerate(face) == face[3] <= face[1] \/ face[4] <= face[2]

\* The expanded square region and the image have a point in common.
Overlaps(img, face) ==
  LET s == Square(face)
  IN  /\ s.x1 < Q * img.width
      /\ s.x2 > 0
      /\ s.y1 < Q * img.height
      /\ s.y2 > 0

\* cv2.resize is handed an empty crop, whatever the library does with borders.
CropRejected(img, face) == EmptyCrop(img, face) /\ ~NeedsBorder(img, face)

\* Every box of the call can be preprocessed.
AllBoxesUsable ==
  \A a \in 1..ZipLen : \A b \in 1..Len(boxes[a]) :
    ~EmptyCrop(images[a], boxes[a][b])

\* Number of boxes of the call.
TotalBoxes == Ends(boxes, Len(boxes))

\* What the single-image-single-box path returns for one box, lines 165 and
\* 175-177.
SinglePath(img, face) ==
  BatchResults(<<Feed(img, face)>>, LoaderBatchSize(1, 0))[1]

\* C1: a call with K images and K box lists (any of them empty) whose boxes
\* can all be preprocessed returns K groups, group a holding one landmark set
\* per box of image a, in feed order.
C1_GroupsPartition ==
  (shape = "batch" /\ pc \in {"done", "raised"}
     /\ Len(boxes) = Len(images) /\ AllBoxesUsable)
  => /\ pc = "done"
     /\ Len(result) = Len(images)
     /\ \A a \in 1..Len(images) :
          /\ Len(result[a]) = Len(boxes[a])
          /\ \A b \in 1..Len(boxes[a]) :
               result[a][b] = Predict(Feed(images[a], boxes[a][b]))

\* C2: a call with one image and a list of N boxes that can all be
\* preprocessed returns N landmark sets, the k-th equal to what the
\* single-box path returns for the k-th box alone.
C2_BatchSingleEquivalence ==
  (shape = "multi" /\ pc \in {"done", "raised"} /\ AllBoxesUsable)
  => /\ pc = "done"
     /\ Len(result) = Len(boxes[1])
     /\ \A k \in 1..Len(boxes[1]) :
          result[k] = SinglePath(TheImage, boxes[1][k])

\* C3: reprojection with the feed's box maps every normalised pair (u, v) to
\* (u*(x2-x1)+x1, v*(y2-y1)+y1); (0,0) goes to exactly (x1, y1) and (1,1) to
\* exactly (x2, y2).
C3_ReprojectCorners ==
  (shape = "single" /\ pc = "done")
  => LET b == feeds[1].bbox
         lm == Model(feeds[1].data)
     IN  /\ Len(result) = Len(lm)
         /\ \A k \in 1..Len(lm) :
              /\ result[k][1] = lm[k][1] * (b[3] - b[1]) + D * b[1]
              /\ result[k][2] = lm[k][2] * (b[4] - b[2]) + D * b[2]
              /\ lm[k] = <<0, 0>> => result[k] = <<D * b[1], D * b[2]>>
              /\ lm[k] = <<D, D>> => result[k] = <<D * b[3], D * b[4]>>

\* C3 witness: a returned single-box call whose landmarks are (0,0) and (1,1)
\* and whose box is not square.
C3_Witness ==
  /\ shape = "single"
  /\ pc = "done"
  /\ Model(feeds[1].data) = << <<0, 0>>, <<D, D>> >>
  /\ feeds[1].bbox[3] - feeds[1].bbox[1] # feeds[1].bbox[4] - feeds[1].bbox[2]
  /\ feeds[1].bbox[1] > 0

\* C4: prepare_feed never returns a feed for a degenerate box (x2 <= x1 or
\* y2 <= y1); stated for the boxes whose square region has a positive side and
\* lies within the image.
C4_DegenerateRaises ==
  (shape = "single" /\ pc # "idle" /\ Degenerate(TheBox)
     /\ Square(TheBox).size > 0 /\ ~NeedsBorder(TheImage, TheBox))
  => feeds = <<>>

\* C5: a multi-image call whose box-list count differs from the image count
\* fails with an assertion failure, with no feed prepared, the network not
\* invoked and nothing returned.
C5_MismatchAsserts ==
  (shape = "batch" /\ pc # "idle" /\ Len(boxes) # Len(images))
  => /\ pc = "raised"
     /\ err = "AssertionError"
     /\ feeds = <<>>
     /\ modelCalls = 0
     /\ result = <<>>

\* C5 witness: a failed call with more box lists than images, the first list
\* holding a box that could have been preprocessed.
C5_Witness ==
  /\ shape = "batch"
  /\ pc = "raised"
  /\ Len(boxes) > Len(images)
  /\ boxes[1] # <<>>
  /\ ~EmptyCrop(images[1], boxes[1][1])

\* C6: when preprocessing of one (image, box) pair raises, the call raises,
\* returns nothing and never invokes the network; the network is invoked only
\* once every box of the call has its feed, and a call that returns had no box
\* whose crop cv2.resize rejects.
C6_BadInputAborts ==
  /\ (pc = "raised" /\ err = "cv2.error") => (modelCalls = 0 /\ result = <<>>)
  /\ modelCalls > 0 => Len(feeds) = TotalBoxes
  /\ pc = "done" =>
       \A a \in 1..Len(boxes) : \A b \in 1..Len(boxes[a]) :
         ~CropRejected(images[a], boxes[a][b])

\* C6 witness: a multi-image call that raised at a bad box after a feed had
\* been prepared for an earlier image, with a usable box still to come.
C6_Witness ==
  /\ shape = "batch"
  /\ pc = "raised"
  /\ err = "cv2.error"
  /\ feeds # <<>>
  /\ i = 1
  /\ Len(boxes) > 1
  /\ boxes[2] # <<>>
  /\ ~EmptyCrop(images[2], boxes[2][1])

\* C7: when the expanded square region of a well-formed box extends past an
\* image edge, a normalised landmark (u, v) is reprojected to
\* (X1 + u*size, Y1 + v*size), X1, Y1 the unclipped origin of the square
\* (both sides in units of 1/(Q*D) pixel).
C7_UnclippedScale ==
  (shape = "single" /\ pc = "done" /\ WellFormed(TheBox)
     /\ Overlaps(TheImage, TheBox) /\ NeedsBorder(TheImage, TheBox))
  => LET s == Square(TheBox)
         lm == Model(feeds[1].data)
     IN  \A k \in 1..Len(lm) :
           /\ Q * result[k][1] = D * s.x1 + Q * lm[k][1] * s.size
           /\ Q * result[k][2] = D * s.y1 + Q * lm[k][2] * s.size

\* C8: a call that returns has invoked the network exactly once, whatever its
\* shape and its number of images and boxes, and whatever batch_size
\* batch_predict2 is given (0 stands for None).
C8_ModelOnce ==
  /\ modelCalls <= 1
  /\ pc = "done" =>
       /\ modelCalls = 1
       /\ \A bsz \in 0..Len(feeds) :
            NumBatches(Len(feeds), LoaderBatchSize(Len(feeds), bsz)) = 1

\* C8 witness: a returned multi-image call with feeds from two images and two
\* feeds from one of them.
C8_Witness ==
  /\ shape = "batch"
  /\ pc = "done"
  /\ modelCalls = 1
  /\ Len(images) >= 2
  /\ Len(boxes[1]) >= 2
  /\ Len(boxes[2]) >= 1

\* C9: for a well-formed box whose square region overlaps the image, the crop
\* plus its padding is the full square: width + dx + edx = size and
\* height + dy + edy = size, and the array handed to resize is size x size;
\* stated for the boxes whose crop is not empty.
C9_PaddingRestoresSquare ==
  (shape = "single" /\ feeds # <<>> /\ WellFormed(TheBox)
     /\ Overlaps(TheImage, TheBox) /\ ~EmptyCrop(TheImage, TheBox))
  => LET s == Square(TheBox)
         c == Clip(TheImage, TheBox)
         cs == CroppedShape(TheImage, TheBox)
     IN  /\ Q * cs[2] + c.dx + c.edx = Q * s.size
         /\ Q * cs[1] + c.dy + c.edy = Q * s.size
         /\ ResizeInput(TheImage, TheBox) = <<s.size, s.size>>

\* C10: the box returned by prepare_feed for a well-formed box lies within
\* the image: 0 <= x1 <= x2 <= width and 0 <= y1 <= y2 <= height; stated for
\* the boxes whose crop is not empty.
C10_BoxWithinImage ==
  (shape = "single" /\ feeds # <<>> /\ WellFormed(TheBox)
     /\ ~EmptyCrop(TheImage, TheBox))
  => LET b == feeds[1].bbox
     IN  /\ 0 <= b[1] /\ b[1] <= b[3] /\ b[3] <= TheImage.width
         /\ 0 <= b[2] /\ b[2] <= b[4] /\ b[4] <= TheImage.height
====
